---- MODULE Spec2Model ----
(***************************************************************************)
(* The debounce / cancel / timeout control loop of the redshift control    *)
(* panel (src/main.go) together with the slider wrapper it drives          *)
(* (src/unnamed/part_000).                                                 *)
(*                                                                         *)
(* Slider values are kept in hundredths (temperature 6500 K is 650000,     *)
(* brightness 1.00 is 100), the precision of the "%.2f" the code formats   *)
(* them with.  Texts are sequences of tokens, so that concatenation and    *)
(* strings.TrimSpace are computed and not assumed.                         *)
(*                                                                         *)
(* Threads: the UI thread runs Change, ResetPress and UIRun, each one      *)
(* callback, hence one step.  The timer goroutine runs TimerFire.  Every   *)
(* apply/reset goroutine walks pc: spawned -> ctx -> running -> done, and  *)
(* is retired when the UI thread has run the callback it handed over.      *)
(* The store to u.cancel made by those goroutines is not synchronised with *)
(* the UI thread's reads; it is a word-sized store, so the race is the     *)
(* choice of which side goes first, which the interleaving of StoreCancel  *)
(* with Change enumerates.                                                 *)
(*                                                                         *)
(* Time is not measured: a pending timer may fire at any moment and a      *)
(* running command may reach its deadline at any moment.  The deadline is  *)
(* taken to pass while the command runs (not in the few instructions       *)
(* between creating the context and starting the process), and the kill    *)
(* that follows it is part of the same step.                               *)
(*                                                                         *)
(* Whether the tool is on PATH does not change during a run.  Spec is the  *)
(* program on a machine that has it (the label starts as "Ready." and      *)
(* every command starts); SpecNotFound is the program on a machine that    *)
(* does not (the label starts with the not-found text and every command    *)
(* fails to launch).                                                       *)
(***************************************************************************)
EXTENDS Integers, Sequences, FiniteSets

\* ---------------------------------------------------------------- bounds
\* User events (slider drags and reset presses) in one run.
MaxEvents == 2

\* ------------------------------------------------------ program constants
TempMin == 100000
TempMax == 1000000
TempDefault == 650000
BrightMin == 10
BrightMax == 100
BrightDefault == 100
GammaMin == 50
GammaMax == 250
GammaDefault == 100

Nil == 0
NoErr == ""

\* The sliders the user drags and the positions they are dragged to (all on the
\* slider's step grid).  A drag of the gamma slider runs the same handler as the
\* other two; the runs explored leave it where restoration puts it.
Sliders == {"tempK", "brightness"}

DragValues(w) ==
    IF w = "tempK" THEN {300000, TempDefault} ELSE {50, BrightDefault}

\* Combined stdout+stderr a run of the tool may leave behind.
Outputs == { <<>>, <<" ", "warn", "\n">> }

\* err.Error() of a process that ran and exited with a failure status.
ExitErrs == {"exit status 1"}
KilledErr == "signal: killed"
CanceledErr == "context canceled"
LaunchErr == "exec: \"redshift\": executable file not found in $PATH"

\* ------------------------------------------------------------ fixed texts
ReadyMsg == <<"Ready.">>
NotFoundMsg == <<"Error: 'redshift' not found in PATH. Install it (e.g., sudo apt install redshift).">>
TimedOutMsg == <<"Timed out applying settings.">>
AppliedMsg == <<"Applied.">>
ResetOkMsg == <<"Reset to defaults.">>
ApplyErrPrefix == "redshift error: "
ResetErrPrefix == "reset error: "

VARIABLES
    tempK, brightness, gamma,   \* the three sliders' values (hundredths)
    out,                        \* the status label's text
    silence,                    \* u.silence
    timer,                      \* u.timer: index into timers, or Nil
    cancel,                     \* u.cancel: the invocation whose CancelFunc is stored, or Nil
    timers,                     \* every time.Timer created so far
    inv,                        \* every apply/reset goroutine started so far
    uiQueue,                    \* callbacks handed to fyne.Do, not yet run
    shownBy,                    \* history: what produced the text the label shows
    restoreInfo,                \* history: what the latest restoration step did
    lastStarted                 \* history (kept by SpecTrack only): the slider values the
                                \* process started last stands for

vars == <<tempK, brightness, gamma, out, silence, timer, cancel, timers, inv,
          uiQueue, shownBy, restoreInfo, lastStarted>>

\* ------------------------------------------------------- pure functions
IsSpace(c) == c \in {" ", "\n", "\t", "\r"}

RECURSIVE TrimLeft(_)
TrimLeft(s) == IF s # <<>> /\ IsSpace(Head(s)) THEN TrimLeft(Tail(s)) ELSE s

RECURSIVE TrimRight(_)
TrimRight(s) ==
    IF s # <<>> /\ IsSpace(s[Len(s)]) THEN TrimRight(SubSeq(s, 1, Len(s) - 1)) ELSE s

TrimSpace(s) == TrimRight(TrimLeft(s))

\* int(temp.Value()): truncation of the slider's float to whole kelvin.
IntOf(v) == v \div 100

\* fmt.Sprintf("%.2f", v) as <<integer part, tenths digit, hundredths digit>>.
Fmt2(v) == << v \div 100, (v % 100) \div 10, v % 10 >>

\* The argument vector apply builds.
ApplyArgs(t, b, g) ==
    << "-m", "randr", "-P", "-O", t, "-g", <<Fmt2(g), Fmt2(g), Fmt2(g)>>, "-b", Fmt2(b) >>

ResetArgs == << "-x" >>

ApplyMsgErrFirst(ctxErr, err, outBytes) ==
    LET msg == TrimSpace(outBytes) IN
    IF err # NoErr /\ msg = <<>> THEN <<ApplyErrPrefix, err>>
    ELSE IF err # NoErr THEN <<ApplyErrPrefix>> \o msg
    ELSE IF ctxErr = "deadline" THEN TimedOutMsg
    ELSE IF msg = <<>> THEN AppliedMsg
    ELSE msg

ApplyMsgRawOutput(ctxErr, err, outBytes) ==
    IF ctxErr = "deadline" THEN TimedOutMsg
    ELSE IF err # NoErr /\ outBytes = <<>> THEN <<ApplyErrPrefix, err>>
    ELSE IF err # NoErr THEN <<ApplyErrPrefix>> \o outBytes
    ELSE IF outBytes = <<>> THEN AppliedMsg
    ELSE outBytes

\* The status text apply derives from the run (ctx.Err(), err, captured output).
ApplyMsg(ctxErr, err, outBytes) ==
    LET msg == TrimSpace(outBytes) IN
    IF ctxErr = "deadline" THEN TimedOutMsg
    ELSE IF err # NoErr /\ msg = <<>> THEN <<ApplyErrPrefix, err>>
    ELSE IF err # NoErr THEN <<ApplyErrPrefix>> \o msg
    ELSE IF msg = <<>> THEN AppliedMsg
    ELSE msg

\* The status text reset derives from the run; it does not consult ctx.Err().
ResetMsg(err, outBytes) ==
    LET msg == TrimSpace(outBytes) IN
    IF err # NoErr /\ msg = <<>> THEN <<ResetErrPrefix, err>>
    ELSE IF err # NoErr THEN <<ResetErrPrefix>> \o msg
    ELSE ResetOkMsg

StartupTextAlwaysReady(found) == ReadyMsg

\* The label's text when the window opens: exec.LookPath found the tool or not.
StartupText(found) == IF found THEN ReadyMsg ELSE NotFoundMsg

\* widget.Slider clamps a programmatic value into [min, max].
Clamp(w, v) ==
    LET lo == IF w = "tempK" THEN TempMin ELSE IF w = "brightness" THEN BrightMin ELSE GammaMin
        hi == IF w = "tempK" THEN TempMax ELSE IF w = "brightness" THEN BrightMax ELSE GammaMax
    IN IF v >= hi THEN hi ELSE IF v <= lo THEN lo ELSE v

\* ----------------------------------------------- the UI thread's handlers
\* The handlers are functions of the record of what the UI thread can touch.
UState ==
    [tempK |-> tempK, brightness |-> brightness, gamma |-> gamma, silence |-> silence,
     timer |-> timer, cancel |-> cancel, timers |-> timers, inv |-> inv,
     nSched |-> 0, nNotif |-> 0]

\* Calling a context.CancelFunc: the first cancellation of a live context wins.
\* supAt records where the goroutine stood when it was cancelled (history).
CancelCtx(iv, i) ==
    IF iv[i].ctx = "active"
    THEN [iv EXCEPT ![i].ctx = "canceled", ![i].supAt = iv[i].pc]
    ELSE iv

StopTimerNoop(ts, k) == ts

\* time.Timer.Stop: stops a timer that has not fired.
StopTimer(ts, k) ==
    IF ts[k].state = "pending"
    THEN [ts EXCEPT ![k] = [@ EXCEPT !.state = "stopped", !.t = 0, !.b = 0, !.g = 0,
                                     !.shown = <<>>]]
    ELSE ts

NewTimer(s, t, b, g) ==
    [state |-> "pending", t |-> t, b |-> b, g |-> g,
     rapid |-> (s.timer # Nil /\ s.timers[s.timer].state = "pending"),
     shown |-> <<>>]

scheduleApplyNoStop(s, t, b, g) ==
    LET s1 == IF s.cancel # Nil
              THEN [s EXCEPT !.inv = CancelCtx(s.inv, s.cancel), !.cancel = Nil]
              ELSE s
    IN [s1 EXCEPT !.timers = Append(s1.timers, NewTimer(s, t, b, g)),
                  !.timer = Len(s1.timers) + 1,
                  !.nSched = @ + 1]

scheduleApply(s, t, b, g) ==
    LET s1 == IF s.cancel # Nil
              THEN [s EXCEPT !.inv = CancelCtx(s.inv, s.cancel), !.cancel = Nil]
              ELSE s
        s2 == IF s1.timer # Nil
              THEN [s1 EXCEPT !.timers = StopTimer(s1.timers, s1.timer)]
              ELSE s1
    IN [s2 EXCEPT !.timers = Append(s2.timers, NewTimer(s, t, b, g)),
                  !.timer = Len(s2.timers) + 1,
                  !.nSched = @ + 1]

onChangeNoSilence(s) ==
    scheduleApply(s, IntOf(s.tempK), s.brightness, s.gamma)

onChange(s) ==
    IF s.silence THEN s
    ELSE scheduleApply(s, IntOf(s.tempK), s.brightness, s.gamma)

\* The slider's OnChanged callback: refresh the value label, then notify.
OnChanged(s) == onChange([s EXCEPT !.nNotif = @ + 1])

\* LabeledSlider.SetValue: the slider takes the (clamped) value and, when that
\* changes it, fires OnChanged exactly as a drag does.
SetValue(s, w, v) ==
    LET c == Clamp(w, v) IN
    IF s[w] = c THEN s ELSE OnChanged([s EXCEPT ![w] = c])

RestoreKeepTemp(s) ==
    LET s0 == [s EXCEPT !.silence = TRUE]
        s2 == SetValue(s0, "brightness", BrightDefault)
        s3 == SetValue(s2, "gamma", GammaDefault)
    IN [s3 EXCEPT !.silence = FALSE]

RestoreLeavesSilence(s) ==
    LET s0 == [s EXCEPT !.silence = TRUE]
        s1 == SetValue(s0, "tempK", TempDefault)
        s2 == SetValue(s1, "brightness", BrightDefault)
    IN SetValue(s2, "gamma", GammaDefault)

\* The restoration callback reset hands to the UI thread (all but SetText).
Restore(s) ==
    LET s0 == [s EXCEPT !.silence = TRUE]
        s1 == SetValue(s0, "tempK", TempDefault)
        s2 == SetValue(s1, "brightness", BrightDefault)
        s3 == SetValue(s2, "gamma", GammaDefault)
    IN [s3 EXCEPT !.silence = FALSE]

\* ------------------------------------------------------------------ Init
NoRestore == [done |-> FALSE, notifs |-> 0, sched |-> 0]
NoSource == [kind |-> "startup", supAt |-> "", ctx |-> "none"]

InitWith(found) ==
    /\ tempK = TempDefault
    /\ brightness = BrightDefault
    /\ gamma = GammaDefault
    /\ out = StartupText(found)
    /\ silence = FALSE
    /\ timer = Nil
    /\ cancel = Nil
    /\ timers = <<>>
    /\ inv = <<>>
    /\ uiQueue = <<>>
    /\ shownBy = NoSource
    /\ restoreInfo = NoRestore
    /\ lastStarted = <<>>

\* The tool is installed.
Init == InitWith(TRUE)

\* The tool is not on PATH.
InitNotFound == InitWith(FALSE)

\* shown (history): what the sliders showed at the drag that scheduled an apply.
NewInv(kind, src, t, b, g) ==
    [kind |-> kind, pc |-> "spawned", ctx |-> "none", src |-> src,
     t |-> t, b |-> b, g |-> g, shown |-> <<>>, argv |-> <<>>, execs |-> 0,
     err |-> NoErr, outBytes |-> <<>>, msg |-> <<>>,
     supAt |-> "", restored |-> 0]

\* What is kept of a goroutine once its UI callback has run: the rest of its
\* record is dead (nothing reads it again).
Retired(r) ==
    [NewInv(r.kind, r.src, 0, 0, 0) EXCEPT !.pc = "retired", !.execs = r.execs,
                                           !.restored = r.restored]

\* A timer that was stopped or has fired no longer holds its closure.
Spent(state, r) == [r EXCEPT !.state = state, !.t = 0, !.b = 0, !.g = 0, !.shown = <<>>]

\* Drags and presses so far: every drag makes a timer, every press a reset.
NumEvents == Len(timers) + Cardinality({i \in 1..Len(inv) : inv[i].kind = "reset"})

\* The goroutine returns from CombinedOutput with (e, o): classify, hand the UI
\* update to fyne.Do, and run the deferred cancel().
Finish(iv, i, e, o) ==
    LET m == IF iv[i].kind = "apply" THEN ApplyMsg(iv[i].ctx, e, o) ELSE ResetMsg(e, o)
    IN [iv EXCEPT ![i].pc = "done", ![i].err = e, ![i].outBytes = o, ![i].msg = m,
                  ![i].ctx = IF @ = "active" THEN "released" ELSE @]

\* --------------------------------------------------------------- actions
\* The user drags slider w to v: the slider stores v and fires OnChanged.
Change(w, v) ==
    /\ NumEvents < MaxEvents
    /\ UState[w] # v
    /\ LET s == OnChanged([UState EXCEPT ![w] = v]) IN
        /\ tempK' = s.tempK
        /\ brightness' = s.brightness
        /\ gamma' = s.gamma
        /\ silence' = s.silence
        /\ timer' = s.timer
        /\ cancel' = s.cancel
        /\ timers' = IF Len(s.timers) > Len(timers)
                     THEN [s.timers EXCEPT ![Len(s.timers)].shown =
                              <<IF w = "tempK" THEN v ELSE tempK,
                                IF w = "brightness" THEN v ELSE brightness,
                                IF w = "gamma" THEN v ELSE gamma>>]
                     ELSE s.timers
        /\ inv' = s.inv
    /\ restoreInfo' = NoRestore
    /\ UNCHANGED <<out, uiQueue, shownBy, lastStarted>>

ResetPressStopsTimer ==
    /\ NumEvents < MaxEvents
    /\ inv' = Append(inv, NewInv("reset", Nil, 0, 0, 0))
    /\ timers' = IF timer # Nil THEN StopTimer(timers, timer) ELSE timers
    /\ UNCHANGED <<tempK, brightness, gamma, out, silence, timer, cancel,
                   uiQueue, shownBy, restoreInfo, lastStarted>>

\* The reset button's handler: go u.reset().
ResetPress ==
    /\ NumEvents < MaxEvents
    /\ inv' = Append(inv, NewInv("reset", Nil, 0, 0, 0))
    /\ UNCHANGED <<tempK, brightness, gamma, out, silence, timer, cancel, timers,
                   uiQueue, shownBy, restoreInfo, lastStarted>>

TimerFireReadsSliders(k) ==
    /\ timers[k].state = "pending"
    /\ timers' = [timers EXCEPT ![k] = Spent("fired", @)]
    /\ inv' = Append(inv, [NewInv("apply", k, IntOf(tempK), brightness, gamma)
                              EXCEPT !.shown = timers[k].shown])
    /\ UNCHANGED <<tempK, brightness, gamma, out, silence, timer, cancel, uiQueue,
                   shownBy, restoreInfo, lastStarted>>

\* The debounce delay of timer k elapses: go u.apply(t, b, g).
TimerFire(k) ==
    /\ timers[k].state = "pending"
    /\ timers' = [timers EXCEPT ![k] = Spent("fired", @)]
    /\ inv' = Append(inv, [NewInv("apply", k, timers[k].t, timers[k].b, timers[k].g)
                              EXCEPT !.shown = timers[k].shown])
    /\ UNCHANGED <<tempK, brightness, gamma, out, silence, timer, cancel, uiQueue,
                   shownBy, restoreInfo, lastStarted>>

\* ctx, cancel := context.WithTimeout(...); u.cancel = cancel
StoreCancel(i) ==
    /\ inv[i].pc = "spawned"
    /\ inv' = [inv EXCEPT ![i].pc = "ctx", ![i].ctx = "active"]
    /\ cancel' = i
    /\ UNCHANGED <<tempK, brightness, gamma, out, silence, timer, timers, uiQueue,
                   shownBy, restoreInfo, lastStarted>>

\* The argument vector is built and cmd.CombinedOutput() is called.
Called(i) ==
    [inv EXCEPT ![i].argv = IF inv[i].kind = "apply"
                            THEN ApplyArgs(inv[i].t, inv[i].b, inv[i].g) ELSE ResetArgs,
                ![i].execs = @ + 1]

\* cmd.CombinedOutput() with the tool installed: the process starts, unless the
\* context is already done, and then the call returns at once with that error.
StartCmdWith(i, track) ==
    /\ inv[i].pc = "ctx"
    /\ \/ /\ inv[i].ctx = "active"
          /\ inv' = [Called(i) EXCEPT ![i].pc = "running"]
          /\ lastStarted' = IF ~track THEN lastStarted
                            ELSE IF inv[i].kind = "apply" THEN inv[i].shown
                            ELSE <<TempDefault, BrightDefault, GammaDefault>>
          /\ UNCHANGED uiQueue
       \/ /\ inv[i].ctx # "active"
          /\ inv' = Finish(Called(i), i, CanceledErr, <<>>)
          /\ uiQueue' = Append(uiQueue, i)
          /\ UNCHANGED lastStarted
    /\ UNCHANGED <<tempK, brightness, gamma, out, silence, timer, cancel, timers,
                   shownBy, restoreInfo>>

StartCmd(i) == StartCmdWith(i, FALSE)

\* The same step, with the history of what was started last kept.
StartCmdTracked(i) == StartCmdWith(i, TRUE)

\* cmd.CombinedOutput() with no tool on PATH: the call returns at once with the
\* lookup error, and no process runs.
LaunchFail(i) ==
    /\ inv[i].pc = "ctx"
    /\ inv' = Finish(Called(i), i, LaunchErr, <<>>)
    /\ uiQueue' = Append(uiQueue, i)
    /\ UNCHANGED <<tempK, brightness, gamma, out, silence, timer, cancel, timers,
                   shownBy, restoreInfo, lastStarted>>

CmdExitNoHandoff(i, e, o) ==
    /\ inv[i].pc = "running"
    /\ inv' = Finish(inv, i, e, o)
    /\ UNCHANGED <<tempK, brightness, gamma, out, silence, timer, cancel, timers,
                   uiQueue, shownBy, restoreInfo, lastStarted>>

\* The process ends by itself with exit status e and combined output o.
CmdExit(i, e, o) ==
    /\ inv[i].pc = "running"
    /\ inv' = Finish(inv, i, e, o)
    /\ uiQueue' = Append(uiQueue, i)
    /\ UNCHANGED <<tempK, brightness, gamma, out, silence, timer, cancel, timers,
                   shownBy, restoreInfo, lastStarted>>

CmdKilledDirectWrite(i, o) ==
    /\ inv[i].pc = "running"
    /\ inv[i].ctx = "canceled"
    /\ inv' = Finish(inv, i, KilledErr, o)
    /\ uiQueue' = Append(uiQueue, i)
    /\ out' = Finish(inv, i, KilledErr, o)[i].msg
    /\ UNCHANGED <<tempK, brightness, gamma, silence, timer, cancel, timers,
                   shownBy, restoreInfo, lastStarted>>

\* The context was cancelled: the process is killed.
CmdKilled(i, o) ==
    /\ inv[i].pc = "running"
    /\ inv[i].ctx = "canceled"
    /\ inv' = Finish(inv, i, KilledErr, o)
    /\ uiQueue' = Append(uiQueue, i)
    /\ UNCHANGED <<tempK, brightness, gamma, out, silence, timer, cancel, timers,
                   shownBy, restoreInfo, lastStarted>>

\* The 3 s deadline passes while the process runs: the context is done with
\* DeadlineExceeded and the process is killed (e = KilledErr), unless it exits
\* by itself at that very moment (e = NoErr).
CmdTimeout(i, e, o) ==
    /\ inv[i].pc = "running"
    /\ inv[i].ctx = "active"
    /\ inv' = Finish([inv EXCEPT ![i].ctx = "deadline"], i, e, o)
    /\ uiQueue' = Append(uiQueue, i)
    /\ UNCHANGED <<tempK, brightness, gamma, out, silence, timer, cancel, timers,
                   shownBy, restoreInfo, lastStarted>>

\* The UI thread runs the oldest queued callback.
UIRun ==
    /\ uiQueue # <<>>
    /\ LET i == Head(uiQueue) IN
        /\ uiQueue' = Tail(uiQueue)
        /\ out' = inv[i].msg
        /\ shownBy' = [kind |-> inv[i].kind, supAt |-> inv[i].supAt, ctx |-> inv[i].ctx]
        /\ IF inv[i].kind = "apply"
           THEN /\ inv' = [inv EXCEPT ![i] = Retired(@)]
                /\ UNCHANGED <<tempK, brightness, gamma, silence, timer, cancel, timers,
                               restoreInfo>>
           ELSE LET s == Restore(UState) IN
                /\ tempK' = s.tempK
                /\ brightness' = s.brightness
                /\ gamma' = s.gamma
                /\ silence' = s.silence
                /\ timer' = s.timer
                /\ cancel' = s.cancel
                /\ timers' = s.timers
                /\ inv' = [s.inv EXCEPT ![i] = Retired([@ EXCEPT !.restored = @ + 1])]
                /\ restoreInfo' = [done |-> TRUE, notifs |-> s.nNotif, sched |-> s.nSched]
    /\ UNCHANGED lastStarted

Next ==
    \/ \E w \in Sliders : \E v \in DragValues(w) : Change(w, v)
    \/ ResetPress
    \/ \E k \in 1..Len(timers) : TimerFire(k)
    \/ \E i \in 1..Len(inv) : StoreCancel(i)
    \/ \E i \in 1..Len(inv) : StartCmd(i)
    \/ \E i \in 1..Len(inv) : \E e \in {NoErr} \cup ExitErrs : \E o \in Outputs : CmdExit(i, e, o)
    \/ \E i \in 1..Len(inv) : \E o \in Outputs : CmdKilled(i, o)
    \/ \E i \in 1..Len(inv) : \E e \in {KilledErr, NoErr} : \E o \in Outputs : CmdTimeout(i, e, o)
    \/ UIRun

Spec == Init /\ [][Next]_vars

\* The runs of a machine without the tool: every invocation fails to launch.
NextNotFound ==
    \/ \E w \in Sliders : \E v \in DragValues(w) : Change(w, v)
    \/ ResetPress
    \/ \E k \in 1..Len(timers) : TimerFire(k)
    \/ \E i \in 1..Len(inv) : StoreCancel(i)
    \/ \E i \in 1..Len(inv) : LaunchFail(i)
    \/ UIRun

SpecNotFound == InitNotFound /\ [][NextNotFound]_vars

\* Spec with the history variable lastStarted kept.
NextTrack ==
    \/ \E w \in Sliders : \E v \in DragValues(w) : Change(w, v)
    \/ ResetPress
    \/ \E k \in 1..Len(timers) : TimerFire(k)
    \/ \E i \in 1..Len(inv) : StoreCancel(i)
    \/ \E i \in 1..Len(inv) : StartCmdTracked(i)
    \/ \E i \in 1..Len(inv) : \E e \in {NoErr} \cup ExitErrs : \E o \in Outputs : CmdExit(i, e, o)
    \/ \E i \in 1..Len(inv) : \E o \in Outputs : CmdKilled(i, o)
    \/ \E i \in 1..Len(inv) : \E e \in {KilledErr, NoErr} : \E o \in Outputs : CmdTimeout(i, e, o)
    \/ UIRun

SpecTrack == Init /\ [][NextTrack]_vars

\* CombinedOutput returns in goroutine i: the process exits, is killed on
\* cancellation, or is killed by the 3 s deadline.
Term(i) ==
    \E o \in Outputs :
        \/ \E e \in {NoErr} \cup ExitErrs : CmdExit(i, e, o)
        \/ CmdKilled(i, o)
        \/ \E e \in {KilledErr, NoErr} : CmdTimeout(i, e, o)

\* Scheduling: the runtime fires a pending timer, runs every goroutine, the
\* deadline bounds every process, and the UI loop drains its queue. The user is
\* never obliged to drag or press.
FairSpec ==
    /\ Spec
    /\ \A k \in 1..MaxEvents : WF_vars(k \in 1..Len(timers) /\ TimerFire(k))
    /\ \A i \in 1..MaxEvents : WF_vars(i \in 1..Len(inv) /\ StoreCancel(i))
    /\ \A i \in 1..MaxEvents : WF_vars(i \in 1..Len(inv) /\ StartCmd(i))
    /\ \A i \in 1..MaxEvents : WF_vars(i \in 1..Len(inv) /\ Term(i))
    /\ WF_vars(UIRun)

\* ---------------------------------------------------------------- claims
Invs == 1..Len(inv)
AppliesOf(k) == {i \in Invs : inv[i].kind = "apply" /\ inv[i].src = k}
InFlight == {i \in Invs : inv[i].pc = "running"}
Queued(i) == Cardinality({j \in 1..Len(uiQueue) : uiQueue[j] = i})

\* t is o without its leading and trailing white space.
IsTrimOf(t, o) ==
    /\ t = <<>> \/ (~IsSpace(t[1]) /\ ~IsSpace(t[Len(t)]))
    /\ \E a \in 0..Len(o) : \E b \in a..Len(o) :
          /\ t = SubSeq(o, a + 1, b)
          /\ \A j \in (1..a) \cup ((b + 1)..Len(o)) : IsSpace(o[j])

\* C1: of a run of drags that each arrive while the previous drag's timer is
\* still pending, only the last one's timer fires; a timer that fired started
\* exactly one apply, a timer that did not started none; and the apply's
\* values and argument vector are those the sliders showed at that last drag.
C1_DebounceCoalesces ==
    /\ \A k \in 1..Len(timers) :
          /\ Cardinality(AppliesOf(k)) = IF timers[k].state = "fired" THEN 1 ELSE 0
          /\ (k < Len(timers) /\ timers[k + 1].rapid) =>
                timers[k].state = "stopped" /\ AppliesOf(k) = {}
          /\ timers[k].state = "pending" =>
                <<timers[k].t, timers[k].b, timers[k].g>> =
                    <<timers[k].shown[1] \div 100, timers[k].shown[2], timers[k].shown[3]>>
    /\ \A i \in Invs : (inv[i].kind = "apply" /\ inv[i].pc # "retired") =>
          /\ <<inv[i].t, inv[i].b, inv[i].g>> =
                <<inv[i].shown[1] \div 100, inv[i].shown[2], inv[i].shown[3]>>
          /\ inv[i].pc \in {"running", "done"} =>
                /\ inv[i].argv[5] = inv[i].shown[1] \div 100
                /\ inv[i].argv[9] = Fmt2(inv[i].shown[2])
                /\ inv[i].argv[7] = <<Fmt2(inv[i].shown[3]), Fmt2(inv[i].shown[3]),
                                      Fmt2(inv[i].shown[3])>>

\* Two rapid drags, and the one apply they led to is running with the second
\* drag's values.
C1_Witness ==
    /\ Len(timers) = 2 /\ timers[2].rapid /\ timers[2].state = "fired"
    /\ \E i \in AppliesOf(2) : inv[i].pc = "running" /\ inv[i].shown[1] # TempDefault

\* C2: the label never shows a text that comes from an apply which a later
\* drag cancelled while its command was in flight.
C2_SupersededNeverPublished ==
    ~(shownBy.kind = "apply" /\ shownBy.supAt = "running")

\* C3: at most one external command (apply or reset) is in flight.
C3_AtMostOneInFlight == Cardinality(InFlight) <= 1

\* C4: at most one apply command is in flight.
C4_AtMostOneApply ==
    Cardinality({i \in InFlight : inv[i].kind = "apply"}) <= 1

\* C5: at most one timer is pending, and it is the one u.timer holds.
C5_OneLiveTimer ==
    /\ Cardinality({k \in 1..Len(timers) : timers[k].state = "pending"}) <= 1
    /\ \A k \in 1..Len(timers) : timers[k].state = "pending" => timer = k

\* A second drag arrived while the first drag's timer was pending.
C5_Witness ==
    /\ Len(timers) = 2
    /\ timers[2].rapid
    /\ timers[1].state = "stopped"
    /\ timers[2].state = "pending"

\* C6: a reset calls the external command once, then hands over one restoration
\* step, which runs once; the writes of a restoration step schedule nothing
\* (no timer is created by them), and the flag is clear again after it.
C6_ResetOnceRestoreOnce ==
    /\ \A i \in Invs : inv[i].kind = "reset" =>
          /\ inv[i].execs = IF inv[i].pc \in {"spawned", "ctx"} THEN 0 ELSE 1
          /\ Queued(i) = IF inv[i].pc = "done" THEN 1 ELSE 0
          /\ inv[i].restored = IF inv[i].pc = "retired" THEN 1 ELSE 0
          /\ inv[i].pc \in {"running", "done"} => inv[i].argv = <<"-x">>
    /\ restoreInfo.sched = 0
    /\ silence = FALSE

\* A restoration step has run whose writes moved sliders, so that change
\* notifications were fired under the flag.
C6_Witness ==
    /\ restoreInfo.done
    /\ restoreInfo.notifs >= 1
    /\ \E i \in Invs : inv[i].kind = "reset" /\ inv[i].pc = "retired"

\* C7: right after a restoration step the sliders show 6500 K, 1.00, 1.00.
C7_ResetRestoresDefaults ==
    restoreInfo.done =>
        /\ tempK = 650000
        /\ brightness = 100
        /\ gamma = 100

\* The restoration of a reset that a later drag cancelled in flight: the drag
\* had moved a slider off its default.
C7_Witness ==
    /\ restoreInfo.done
    /\ restoreInfo.notifs >= 1
    /\ shownBy.kind = "reset"
    /\ shownBy.supAt = "running"

\* C8: an apply whose context ended by its deadline publishes the timeout text,
\* whatever the process returned.
C8_TimeoutWins ==
    /\ \A i \in Invs : (inv[i].kind = "apply" /\ inv[i].pc = "done" /\ inv[i].ctx = "deadline") =>
          /\ inv[i].msg = <<"Timed out applying settings.">>
          /\ inv[i].supAt = ""
    /\ (shownBy.kind = "apply" /\ shownBy.ctx = "deadline") =>
          out = <<"Timed out applying settings.">>

\* The label shows the timeout text of an apply, and another timed-out apply
\* that was killed after writing output is about to publish.
C8_Witness ==
    \E i \in Invs :
        /\ inv[i].kind = "apply" /\ inv[i].pc = "done" /\ inv[i].ctx = "deadline"
        /\ inv[i].err = KilledErr
        /\ inv[i].outBytes = <<" ", "warn", "\n">>

\* C9: the text of an apply that neither timed out nor was superseded follows
\* the four-way table on (failed?, trimmed output empty?); a failed reset
\* follows the same two failure rows with its own prefix.
C9_Classification ==
    \A i \in Invs : inv[i].pc = "done" =>
        \E t \in {<<>>, <<"warn">>} :
            /\ IsTrimOf(t, inv[i].outBytes)
            /\ (inv[i].kind = "apply" /\ inv[i].ctx # "deadline" /\ inv[i].supAt = "") =>
                  inv[i].msg =
                     IF inv[i].err # NoErr /\ t = <<>> THEN <<"redshift error: ", inv[i].err>>
                     ELSE IF inv[i].err # NoErr THEN <<"redshift error: ">> \o t
                     ELSE IF t = <<>> THEN <<"Applied.">>
                     ELSE t
            /\ (inv[i].kind = "reset" /\ inv[i].err # NoErr) =>
                  inv[i].msg =
                     IF t = <<>> THEN <<"reset error: ", inv[i].err>>
                     ELSE <<"reset error: ">> \o t

\* An apply that failed after writing padded output, not superseded, in time.
C9_Witness ==
    \E i \in Invs :
        /\ inv[i].kind = "apply" /\ inv[i].pc = "done"
        /\ inv[i].ctx = "released" /\ inv[i].supAt = ""
        /\ inv[i].err = "exit status 1"
        /\ inv[i].outBytes = <<" ", "warn", "\n">>

\* C10: the text of a reset whose context ended by its deadline is none of the
\* texts an ordinary reset failure (a failure exit, in time) publishes.
C10_ResetTimeoutDistinct ==
    \A i \in Invs : (inv[i].kind = "reset" /\ inv[i].pc = "done" /\ inv[i].ctx = "deadline") =>
        inv[i].msg \notin {<<"reset error: ", e>> : e \in ExitErrs}
                          \cup {<<"reset error: ", "warn">>}

\* Nothing is pending: no timer, no goroutine, no queued callback.
Quiescent ==
    /\ uiQueue = <<>>
    /\ \A k \in 1..Len(timers) : timers[k].state # "pending"
    /\ \A i \in Invs : inv[i].pc = "retired"

LatestPending(k) == Len(timers) = k /\ timers[k].state = "pending"

\* A later change has been made than the one that scheduled timer k.
ChangedAfter(k) == Len(timers) > k

\* C11: whatever earlier invocations did, a change is accepted (up to the
\* bound on events); and a change that no other change follows has its apply
\* started with the change's snapshot, then terminated, then published.
C11_ChangeEventuallyApplied ==
    /\ [](NumEvents < MaxEvents =>
            \A w \in Sliders : \E v \in DragValues(w) : ENABLED Change(w, v))
    /\ \A k \in 1..MaxEvents :
        /\ LatestPending(k) ~>
              (ChangedAfter(k) \/ \E i \in AppliesOf(k) :
                  /\ inv[i].pc = "running"
                  /\ inv[i].argv = ApplyArgs(IntOf(inv[i].shown[1]), inv[i].shown[2],
                                             inv[i].shown[3]))
        /\ LatestPending(k) ~>
              (ChangedAfter(k) \/ \E i \in AppliesOf(k) : inv[i].pc \in {"done", "retired"})
        /\ LatestPending(k) ~>
              (ChangedAfter(k) \/ \E i \in AppliesOf(k) :
                  inv[i].pc = "retired" /\ inv[i].execs = 1)

\* An apply failed and was published, a second change was made after it, and
\* that change's apply has been published too.
C11_Witness ==
    /\ Len(timers) = 2
    /\ \E i \in AppliesOf(1) : inv[i].pc = "retired" /\ i < Len(inv)
    /\ \E i \in AppliesOf(2) : inv[i].pc = "retired" /\ inv[i].execs = 1
    /\ uiQueue = <<>>

\* C12: without the tool on PATH the label shows the not-found text until the
\* first callback of an invocation runs, so in every state before the first
\* drag or press, and the startup lookup starts no goroutine, timer or command;
\* drags and presses are then handled as always: each invocation calls the
\* command once with its usual arguments and publishes the launch error under
\* its own prefix, and a reset still restores the defaults.
C12_NotFoundAtStartup ==
    /\ NumEvents = 0 =>
          /\ out = <<"Error: 'redshift' not found in PATH. Install it (e.g., sudo apt install redshift).">>
          /\ inv = <<>> /\ timers = <<>> /\ uiQueue = <<>>
    /\ shownBy.kind = "startup" =>
          out = <<"Error: 'redshift' not found in PATH. Install it (e.g., sudo apt install redshift).">>
    /\ shownBy.kind = "apply" => out = <<"redshift error: ", LaunchErr>>
    /\ shownBy.kind = "reset" => out = <<"reset error: ", LaunchErr>>
    /\ \A i \in Invs : inv[i].pc = "done" =>
          /\ inv[i].execs = 1
          /\ inv[i].err = LaunchErr
          /\ Queued(i) = 1
          /\ inv[i].argv = IF inv[i].kind = "reset" THEN <<"-x">>
                           ELSE ApplyArgs(inv[i].t, inv[i].b, inv[i].g)
    /\ \A k \in 1..Len(timers) : Cardinality(AppliesOf(k)) =
                                     IF timers[k].state = "fired" THEN 1 ELSE 0
    /\ restoreInfo.done =>
          <<tempK, brightness, gamma>> = <<TempDefault, BrightDefault, GammaDefault>>

\* The label still shows the not-found text while a drag's apply and a
\* reset have both failed to launch and wait for the UI thread.
C12_Witness ==
    /\ out = NotFoundMsg
    /\ \E i \in Invs : inv[i].kind = "apply" /\ inv[i].pc = "done"
    /\ \E i \in Invs : inv[i].kind = "reset" /\ inv[i].pc = "done"

\* C13: in no state is a goroutine about to store its CancelFunc in u.cancel
\* while the UI thread can run a change handler, which reads and clears it.
C13_CancelSlotUIOnly ==
    ~( /\ \E i \in Invs : ENABLED StoreCancel(i)
       /\ \E w \in Sliders : \E v \in DragValues(w) : ENABLED Change(w, v) )

\* A step of an apply or reset goroutine, or of the timer callback: a goroutine
\* is created, or one moves on in its own code.
BackgroundStep ==
    \/ Len(inv') > Len(inv) /\ inv'[Len(inv')].kind = "apply"
    \/ \E i \in Invs : inv'[i].pc # inv[i].pc /\ inv'[i].pc # "retired"

\* C14: a step that changes the label or a slider is never a step of a
\* goroutine or of the timer callback; a goroutine that has its result queues
\* one callback instead, and the label and the sliders change only when the
\* UI thread runs the head of that queue or handles a drag.
C14_WritesOnUIThread ==
    [][ /\ BackgroundStep => UNCHANGED <<out, tempK, brightness, gamma>>
        /\ \A i \in Invs : (inv[i].pc # "done" /\ inv'[i].pc = "done") =>
               uiQueue' = Append(uiQueue, i)
        /\ out' # out =>
               /\ uiQueue # <<>> /\ uiQueue' = Tail(uiQueue)
               /\ out' = inv[Head(uiQueue)].msg
        /\ <<tempK, brightness, gamma>>' # <<tempK, brightness, gamma>> =>
               \/ uiQueue # <<>> /\ uiQueue' = Tail(uiQueue)
                  /\ inv[Head(uiQueue)].kind = "reset"
               \/ Len(timers') = Len(timers) + 1
      ]_vars

\* The label shows what an apply's callback wrote while a reset that has its
\* result waits for the UI thread to restore the sliders.
C14_Witness ==
    /\ shownBy.kind = "apply"
    /\ out = AppliedMsg
    /\ <<tempK, brightness, gamma>> # <<TempDefault, BrightDefault, GammaDefault>>
    /\ \E i \in Invs : inv[i].kind = "reset" /\ inv[i].pc = "done" /\ Queued(i) = 1

\* The UI thread runs a queued callback in this step.
CallbackStep == uiQueue # <<>> /\ uiQueue' = Tail(uiQueue)

\* C15: the flag is clear before and after every step, so whenever a drag can
\* be handled; a drag is therefore never dropped: it leaves a pending timer
\* holding the values the sliders then show; and the slider changes made by a
\* restoration callback, the only ones notified under the flag, schedule
\* nothing.
C15_SilenceOnlyInRestore ==
    [][ /\ silence = FALSE /\ silence' = FALSE
        /\ (<<tempK, brightness, gamma>>' # <<tempK, brightness, gamma>> /\ ~CallbackStep) =>
              /\ Len(timers') = Len(timers) + 1
              /\ timer' = Len(timers')
              /\ timers'[timer'].state = "pending"
              /\ <<timers'[timer'].t, timers'[timer'].b, timers'[timer'].g>> =
                    <<IntOf(tempK'), brightness', gamma'>>
        /\ CallbackStep =>
              /\ Len(timers') = Len(timers) /\ timer' = timer
              /\ restoreInfo'.sched = 0
              /\ inv[Head(uiQueue)].kind = "apply" => UNCHANGED <<tempK, brightness, gamma>>
      ]_vars

\* A restoration callback moved sliders, so notifications arrived under the
\* flag, while the timer of the user's drag is still pending.
C15_Witness ==
    /\ restoreInfo.done
    /\ restoreInfo.notifs >= 1
    /\ silence = FALSE
    /\ timer # Nil /\ timers[timer].state = "pending"

\* A step of a reset: the press, a step of its goroutine, or its callback.
ResetStep ==
    \/ Len(inv') > Len(inv) /\ inv'[Len(inv')].kind = "reset"
    \/ \E i \in Invs : inv[i].kind = "reset" /\ inv'[i].pc # inv[i].pc

\* C16: no step of a reset (press, goroutine, restoration) changes a timer or
\* u.timer, so a timer pending before it is pending after it, and a pending
\* timer can always fire; a timer that fires starts its apply with the values
\* it captured.
C16_ResetLeavesTimer ==
    /\ [][ /\ ResetStep => UNCHANGED <<timers, timer>>
           /\ \A k \in 1..Len(timers) :
                (timers[k].state = "pending" /\ timers'[k].state = "fired") =>
                   /\ Len(inv') = Len(inv) + 1
                   /\ inv'[Len(inv')].kind = "apply" /\ inv'[Len(inv')].src = k
                   /\ <<inv'[Len(inv')].t, inv'[Len(inv')].b, inv'[Len(inv')].g>> =
                         <<timers[k].t, timers[k].b, timers[k].g>>
         ]_vars
    /\ [](\A k \in 1..Len(timers) : timers[k].state = "pending" => ENABLED TimerFire(k))

\* A reset was pressed while a drag's timer was pending and has restored the
\* sliders; the timer then fired, and its apply holds the drag's temperature.
C16_Witness ==
    \E i \in Invs : \E j \in Invs :
        /\ i < j
        /\ inv[i].kind = "reset" /\ inv[i].pc = "retired"
        /\ inv[j].kind = "apply" /\ inv[j].pc = "spawned"
        /\ inv[j].t # IntOf(tempK)
        /\ restoreInfo.done

\* C17: a change event captures the values the sliders show at that moment;
\* the captured values stay as they are while the timer is pending and while
\* the apply lives, whatever is written to the sliders meanwhile; and the
\* argument vector the apply passes is built from the values shown at the
\* change event that scheduled it.
C17_SnapshotImmutable ==
    [][ /\ Len(timers') > Len(timers) =>
              <<timers'[Len(timers')].t, timers'[Len(timers')].b, timers'[Len(timers')].g>> =
                  <<IntOf(tempK'), brightness', gamma'>>
        /\ \A k \in 1..Len(timers) :
              (timers[k].state = "pending" /\ timers'[k].state = "pending") =>
                  timers'[k] = timers[k]
        /\ \A i \in Invs : (inv[i].kind = "apply" /\ inv'[i].pc # "retired") =>
              <<inv'[i].t, inv'[i].b, inv'[i].g, inv'[i].shown>> =
                  <<inv[i].t, inv[i].b, inv[i].g, inv[i].shown>>
        /\ \A i \in Invs :
              (inv[i].kind = "apply" /\ inv[i].pc = "ctx" /\ inv'[i].pc \in {"running", "done"}) =>
                  inv'[i].argv =
                      << "-m", "randr", "-P", "-O", inv[i].shown[1] \div 100,
                         "-g", <<Fmt2(inv[i].shown[3]), Fmt2(inv[i].shown[3]), Fmt2(inv[i].shown[3])>>,
                         "-b", Fmt2(inv[i].shown[2]) >>
      ]_vars

\* A reset restored the sliders after a drag, and the drag's apply runs with
\* the drag's temperature, not the one the slider shows now.
C17_Witness ==
    /\ \E j \in Invs : inv[j].kind = "reset" /\ inv[j].pc = "retired"
    /\ \E i \in Invs :
          /\ inv[i].kind = "apply" /\ inv[i].pc = "running"
          /\ inv[i].argv[5] # IntOf(tempK)
          /\ tempK = TempDefault

====
